---- MODULE Spec2Model ----
(***************************************************************************)
(* Model of the email-waitlist subscribe endpoint (app/api/subscribe/      *)
(* route.ts): the POST handler's parse -> validate -> normalise ->         *)
(* duplicate-check read -> insert sequence with its error classification,  *)
(* and the GET handler.  Each handler invocation is a process; a process   *)
(* yields at the two `await`s on the document store, so reads and writes   *)
(* of different invocations interleave there.                              *)
(*                                                                         *)
(* Strings that the code inspects character by character (the email) are   *)
(* sequences of one-character strings; strings the code only copies or     *)
(* tests for emptiness (source, headers, messages) are TLA+ strings.       *)
(***************************************************************************)
EXTENDS Integers, Sequences, FiniteSets, TLC

(***************************************************************************)
(* Bounds of the model.                                                    *)
(***************************************************************************)
\* Number of handler invocations (requests) in one behaviour.
NumReq == 2

Reqs == 1..NumReq

(***************************************************************************)
(* Characters and the email grammar of z.string().email().                 *)
(***************************************************************************)
UpperChars == <<"A","B","C","D","E","F","G","H","I","J","K","L","M",
                "N","O","P","Q","R","S","T","U","V","W","X","Y","Z">>
LowerChars == <<"a","b","c","d","e","f","g","h","i","j","k","l","m",
                "n","o","p","q","r","s","t","u","v","w","x","y","z">>
Digits == {"0","1","2","3","4","5","6","7","8","9"}

Range(s) == {s[i] : i \in DOMAIN s}

Letters == Range(UpperChars) \cup Range(LowerChars)
AlNum == Letters \cup Digits

\* The pairs <<upper-case letter, its lower-case letter>>.
CasePairs == {<<UpperChars[i], LowerChars[i]>> : i \in DOMAIN UpperChars}

\* String.prototype.toLowerCase on one character.
LowerChar(c) ==
    IF c \in Range(UpperChars)
    THEN (CHOOSE p \in CasePairs : p[1] = c)[2]
    ELSE c

\* Faulty variant: the normalisation is forgotten.
ToLowerCaseIdentity(s) == s

\* String.prototype.toLowerCase.
ToLowerCase(s) == [i \in DOMAIN s |-> LowerChar(s[i])]

\* The character classes of zod's email pattern (matched with the i flag):
\*   ^(?!\.)(?!.*\.\.)([A-Z0-9_'+\-\.]*)[A-Z0-9_+-]@([A-Z0-9][A-Z0-9\-]*\.)+[A-Z]{2,}$
LocalChars == AlNum \cup {"_", "'", "+", "-", "."}
LocalLastChars == AlNum \cup {"_", "+", "-"}
DomainChars == AlNum \cup {"-", "."}

AtPositions(s) == {i \in DOMAIN s : s[i] = "@"}
DotPositions(s) == {i \in DOMAIN s : s[i] = "."}

Max(S) == CHOOSE x \in S : \A y \in S : y <= x

\* Faulty variant: a validator that only looks for a local part followed by "@".
IsEmailLoose(s) == \E i \in DOMAIN s : i >= 2 /\ s[i] = "@"

\* Does the string match the email pattern?
IsEmail(s) ==
    /\ Len(s) > 0
    /\ s[1] # "."
    /\ \A i \in 1..(Len(s) - 1) : ~(s[i] = "." /\ s[i + 1] = ".")
    /\ Cardinality(AtPositions(s)) = 1
    /\ LET at == CHOOSE i \in AtPositions(s) : TRUE
           n == Len(s)
           domDots == {i \in DotPositions(s) : i > at}
       IN  /\ at >= 2
           /\ \A i \in 1..(at - 1) : s[i] \in LocalChars
           /\ s[at - 1] \in LocalLastChars
           /\ \A i \in (at + 1)..n : s[i] \in DomainChars
           /\ domDots # {}
           /\ at + 1 <= n
           /\ s[at + 1] \in AlNum
           /\ LET last == Max(domDots)
              IN  /\ \A i \in domDots : i # last => s[i + 1] \in AlNum
                  /\ n - last >= 2
                  /\ \A i \in (last + 1)..n : s[i] \in Letters


(***************************************************************************)
(* Request inputs.                                                         *)
(***************************************************************************)
\* JSON values of the body's `email` member.
Undefined == [t |-> "undefined", s |-> <<>>]
JNumber == [t |-> "number", s |-> <<>>]
JString(chars) == [t |-> "string", s |-> chars]

\* JSON values of the body's `source` member (a string the code only copies).
NoSource == [t |-> "undefined", v |-> ""]
Source(str) == [t |-> "string", v |-> str]

\* Request bodies: request.json() rejects ("malformed"), or yields null or
\* an object with optional members email and source.
MalformedBody(text) ==
    [kind |-> "malformed", err |-> text, email |-> Undefined, source |-> NoSource]
NullBody == [kind |-> "null", err |-> "", email |-> Undefined, source |-> NoSource]
ObjectBody(e, src) == [kind |-> "object", err |-> "", email |-> e, source |-> src]

\* Email strings: syntactically invalid ones ...
EmptyEmail == <<>>
NoAtEmail == <<"a", "b", ".", "c", "o">>
NoDomainEmail == <<"a", "@">>
NoLocalEmail == <<"@", "b", ".", "c", "o">>
DoubleDotEmail == <<"a", "@", "b", ".", ".", "c", "o">>
ShortTldEmail == <<"a", "@", "b", ".", "c">>
\* ... and valid ones; the first two have the same lower-cased form.
LowerEmail == <<"a", "@", "b", ".", "c", "o">>
UpperEmail == <<"A", "@", "B", ".", "C", "O">>
OtherEmail == <<"c", "-", "1", "@", "d", ".", "e", ".", "i", "o">>

InvalidEmails ==
    {EmptyEmail, NoAtEmail, NoDomainEmail, NoLocalEmail, DoubleDotEmail, ShortTldEmail}
ValidEmails == {LowerEmail, UpperEmail, OtherEmail}

\* Texts of the errors thrown by request.json() and by the document store.
JsonErrTexts == {"Unexpected token i in JSON at position 10"}
ReadErrTexts == {"Database connection failed"}
WriteErrTexts == {"Connection failed"}

\* Request headers: a function from the header names present to their values.
NoHeaders == [n \in {} |-> ""]
ProxyHeaders ==
    [n \in {"x-forwarded-for", "x-real-ip", "user-agent"} |->
        IF n = "x-forwarded-for" THEN "192.168.1.1"
        ELSE IF n = "x-real-ip" THEN "10.0.0.7" ELSE "Mozilla/5.0 Test Browser"]
EmptyValueHeaders ==
    [n \in {"x-forwarded-for", "x-real-ip", "user-agent"} |->
        IF n = "x-real-ip" THEN "10.0.0.7" ELSE ""]

Bodies ==
    {MalformedBody(t) : t \in JsonErrTexts}
    \cup {NullBody, ObjectBody(Undefined, NoSource), ObjectBody(JNumber, NoSource)}
    \cup {ObjectBody(JString(e), NoSource) : e \in InvalidEmails \cup {LowerEmail, UpperEmail}}
    \cup {ObjectBody(JString(LowerEmail), Source("test")),
          ObjectBody(JString(LowerEmail), Source(""))}

Request(m, q, h, b) == [method |-> m, query |-> q, headers |-> h, body |-> b]

\* The requests the environment may send.
PostRequests ==
    {Request("POST", "", NoHeaders, b) : b \in Bodies}
    \cup {Request("POST", "", h, ObjectBody(JString(OtherEmail), NoSource)) :
            h \in {ProxyHeaders, EmptyValueHeaders}}
GetRequests ==
    {Request("GET", "", NoHeaders, NullBody),
     Request("GET", "?email=a@b.co", ProxyHeaders, ObjectBody(JString(LowerEmail), NoSource))}

\* request.headers.get(name): the value, or null (modelled as absence).
HasHeader(h, name) == name \in DOMAIN h
\* request.headers.get(a) || request.headers.get(b) || dflt, for strings:
\* null and the empty string are falsy.
Truthy(h, name) == HasHeader(h, name) /\ h[name] # ""

(***************************************************************************)
(* emailSchema.parse(body): the issues of the ZodError; none when valid.   *)
(***************************************************************************)
Issue(code, path, msg) == [code |-> code, path |-> path, message |-> msg]

EmailIssues(e) ==
    IF e.t = "undefined" THEN <<Issue("invalid_type", <<"email">>, "Required")>>
    ELSE IF e.t # "string"
    THEN <<Issue("invalid_type", <<"email">>, "Expected string, received number")>>
    ELSE IF ~IsEmail(e.s)
    THEN <<Issue("invalid_string", <<"email">>, "Invalid email address")>>
    ELSE <<>>

SchemaIssues(body) ==
    IF body.kind # "object"
    THEN <<Issue("invalid_type", <<>>, "Expected object, received null")>>
    ELSE EmailIssues(body.email)


(***************************************************************************)
(* The document store (collection email_subscribers) and the handlers'     *)
(* state.                                                                  *)
(***************************************************************************)
VARIABLES
    store,              \* the collection: its documents, in insertion order
    store0,             \* history: the collection before the first request
    pc,                 \* per invocation: "idle", "awaitGet", "awaitAdd", "done"
    request,            \* per invocation: the request it handles
    subscriberData,     \* per invocation: the candidate record
    existingSubscriber, \* per invocation: the duplicate-check snapshot
    docRef,             \* per invocation: position of the document it added
    getCalls,           \* per invocation: calls of .get() on the collection
    addCalls,           \* per invocation: calls of .add() on the collection
    caught,             \* per invocation: the error its catch block received
    response            \* per invocation: the response it returned

\* One instance of the signup form in a browser: the component's state,
\* the form library's state for its one field, and the requests it has sent.
VARIABLES
    emailField,         \* value of the registered field "email"
    errors,             \* errors.email.message, "" when the field has no error
    isSubmitted,        \* the form library's flag: a submit has been handled
    isSubmitting,       \* useState(false)
    submitStatus,       \* useState({ type: null, message: "" })
    pending,            \* bodies of the fetch calls that have not settled
    fetchCalls,         \* calls of fetch() so far
    lastEvent           \* history: the event handled last

endpointVars == <<store, store0, pc, request, subscriberData, existingSubscriber,
                  docRef, getCalls, addCalls, caught, response>>

formVars == <<emailField, errors, isSubmitted, isSubmitting, submitStatus,
              pending, fetchCalls, lastEvent>>

vars == <<endpointVars, formVars>>

\* new Date().toISOString(): the time of the call; its value is not modelled.
NowISO == "server-time"

Record(email, source, status, ip, ua) ==
    [email |-> email, source |-> source, subscribedAt |-> NowISO,
     status |-> status, ipAddress |-> ip, userAgent |-> ua]

NoData == [email |-> <<>>, source |-> "", subscribedAt |-> "", status |-> "",
           ipAddress |-> "", userAgent |-> ""]
NoRequest == Request("", "", NoHeaders, NullBody)
NoError == [name |-> "", message |-> "", issues |-> <<>>]
NoResponse == [status |-> 0, body |-> [message |-> ""]]

\* Faulty variant: the candidate keeps the email as submitted.
SubscriberDataRawEmail(q) ==
    Record(q.body.email.s,
           IF q.body.source.t = "string" /\ q.body.source.v # ""
           THEN q.body.source.v ELSE "website",
           "active",
           IF Truthy(q.headers, "x-forwarded-for") THEN q.headers["x-forwarded-for"]
           ELSE IF Truthy(q.headers, "x-real-ip") THEN q.headers["x-real-ip"]
           ELSE "unknown",
           IF Truthy(q.headers, "user-agent") THEN q.headers["user-agent"]
           ELSE "unknown")

\* Faulty variant: the two address headers are consulted in the other order.
SubscriberDataRealIpFirst(q) ==
    Record(ToLowerCase(q.body.email.s),
           IF q.body.source.t = "string" /\ q.body.source.v # ""
           THEN q.body.source.v ELSE "website",
           "active",
           IF Truthy(q.headers, "x-real-ip") THEN q.headers["x-real-ip"]
           ELSE IF Truthy(q.headers, "x-forwarded-for") THEN q.headers["x-forwarded-for"]
           ELSE "unknown",
           IF Truthy(q.headers, "user-agent") THEN q.headers["user-agent"]
           ELSE "unknown")

\* const subscriberData = { ... } of the POST handler.
SubscriberData(q) ==
    Record(ToLowerCase(q.body.email.s),
           IF q.body.source.t = "string" /\ q.body.source.v # ""
           THEN q.body.source.v ELSE "website",
           "active",
           IF Truthy(q.headers, "x-forwarded-for") THEN q.headers["x-forwarded-for"]
           ELSE IF Truthy(q.headers, "x-real-ip") THEN q.headers["x-real-ip"]
           ELSE "unknown",
           IF Truthy(q.headers, "user-agent") THEN q.headers["user-agent"]
           ELSE "unknown")

\* Faulty variant: the limit is applied before the filter, so only the first
\* document of the collection is compared.
QueryFirstOnly(docs, key) ==
    IF docs # <<>> /\ Head(docs).email = key THEN <<Head(docs)>> ELSE <<>>

\* Faulty variant: the where clause is left out, so any document matches.
QueryAnyDocument(docs, key) == IF docs = <<>> THEN <<>> ELSE <<Head(docs)>>

\* collection.where('email', '==', key).limit(1).get(): the matching
\* documents, at most one.
Query(docs, key) ==
    LET hits == SelectSeq(docs, LAMBDA d : d.email = key)
    IN  IF hits = <<>> THEN <<>> ELSE <<Head(hits)>>

\* Faulty variant: the catch block reports the caught error's own message.
CatchResponseLeaky(error) ==
    IF error.name = "ZodError"
    THEN [status |-> 400,
          body |-> [message |-> "Invalid email format", errors |-> error.issues]]
    ELSE [status |-> 500, body |-> [message |-> error.message]]

\* Faulty variant: the catch block handles validation errors only and rethrows the
\* rest, so the handler returns no response.
CatchResponseRethrow(error) ==
    IF error.name = "ZodError"
    THEN [status |-> 400,
          body |-> [message |-> "Invalid email format", errors |-> error.issues]]
    ELSE NoResponse

\* The catch block of the POST handler: the response for a caught error.
CatchResponse(error) ==
    IF error.name = "ZodError"
    THEN [status |-> 400,
          body |-> [message |-> "Invalid email format", errors |-> error.issues]]
    ELSE [status |-> 500,
          body |-> [message |-> "Failed to subscribe. Please try again."]]

DuplicateResponse == [status |-> 409, body |-> [message |-> "Email already subscribed"]]
CreatedResponse(data) ==
    [status |-> 201, body |-> [message |-> "Successfully subscribed!", email |-> data.email]]
\* Faulty variant: the status option is left out, so the response has the default status.
MethodNotAllowedDefaultStatus == [status |-> 200, body |-> [message |-> "Method not allowed"]]

MethodNotAllowed == [status |-> 405, body |-> [message |-> "Method not allowed"]]

\* Collections the subsystem can find when the first request arrives: its
\* own earlier inserts (normalised emails), some unsubscribed externally.
InitialStores ==
    {<<>>,
     <<Record(LowerEmail, "website", "active", "unknown", "unknown")>>,
     <<Record(OtherEmail, "landing-page", "unsubscribed", "10.0.0.7", "unknown")>>}

Init ==
    /\ store \in InitialStores
    /\ store0 = store
    /\ pc = [r \in Reqs |-> "idle"]
    /\ request = [r \in Reqs |-> NoRequest]
    /\ subscriberData = [r \in Reqs |-> NoData]
    /\ existingSubscriber = [r \in Reqs |-> "unset"]
    /\ docRef = [r \in Reqs |-> 0]
    /\ getCalls = [r \in Reqs |-> 0]
    /\ addCalls = [r \in Reqs |-> 0]
    /\ caught = [r \in Reqs |-> NoError]
    /\ response = [r \in Reqs |-> NoResponse]
    /\ emailField = <<>>
    /\ errors = ""
    /\ isSubmitted = FALSE
    /\ isSubmitting = FALSE
    /\ submitStatus = [type |-> "null", message |-> ""]
    /\ pending = <<>>
    /\ fetchCalls = 0
    /\ lastEvent = [kind |-> "none", value |-> <<>>,
                    outcome |-> [kind |-> "none", status |-> 0, parses |-> FALSE,
                                 result |-> [hasMessage |-> FALSE, message |-> ""]]]

\* Invocations are numbered in order of arrival.
Arrives(r) == pc[r] = "idle" /\ \A o \in Reqs : o < r => pc[o] # "idle"

\* The handler returns `resp` (from its catch block when `error` is given).
Return(r, error, resp) ==
    /\ pc' = [pc EXCEPT ![r] = "done"]
    /\ caught' = [caught EXCEPT ![r] = error]
    /\ response' = [response EXCEPT ![r] = resp]

Throw(r, error) == Return(r, error, CatchResponse(error))

\* POST, from entry to its first store call: request.json(), schema parse,
\* building the candidate, and issuing the duplicate-check query.
PostBegin(r, q) ==
    /\ Arrives(r)
    /\ request' = [request EXCEPT ![r] = q]
    /\ UNCHANGED <<store, store0, existingSubscriber, docRef, addCalls>>
    /\ IF q.body.kind = "malformed"
       THEN /\ Throw(r, [name |-> "SyntaxError", message |-> q.body.err, issues |-> <<>>])
            /\ UNCHANGED <<subscriberData, getCalls>>
       ELSE IF SchemaIssues(q.body) # <<>>
       THEN /\ Throw(r, [name |-> "ZodError", message |-> "Invalid email address",
                         issues |-> SchemaIssues(q.body)])
            /\ UNCHANGED <<subscriberData, getCalls>>
       ELSE /\ subscriberData' = [subscriberData EXCEPT ![r] = SubscriberData(q)]
            /\ getCalls' = [getCalls EXCEPT ![r] = @ + 1]
            /\ pc' = [pc EXCEPT ![r] = "awaitGet"]
            /\ UNCHANGED <<caught, response>>

\* The POST handler of the variant of the route that logs its steps, from
\* entry to its first store call: it reads body.email and body.source for
\* the log before the schema parse, which throws a TypeError on a null body.
PostBeginLogged(r, q) ==
    /\ Arrives(r)
    /\ request' = [request EXCEPT ![r] = q]
    /\ UNCHANGED <<store, store0, existingSubscriber, docRef, addCalls>>
    /\ IF q.body.kind = "malformed"
       THEN /\ Throw(r, [name |-> "SyntaxError", message |-> q.body.err, issues |-> <<>>])
            /\ UNCHANGED <<subscriberData, getCalls>>
       ELSE IF q.body.kind = "null"
       THEN /\ Throw(r, [name |-> "TypeError",
                         message |-> "Cannot read properties of null (reading 'email')",
                         issues |-> <<>>])
            /\ UNCHANGED <<subscriberData, getCalls>>
       ELSE IF SchemaIssues(q.body) # <<>>
       THEN /\ Throw(r, [name |-> "ZodError", message |-> "Invalid email address",
                         issues |-> SchemaIssues(q.body)])
            /\ UNCHANGED <<subscriberData, getCalls>>
       ELSE /\ subscriberData' = [subscriberData EXCEPT ![r] = SubscriberData(q)]
            /\ getCalls' = [getCalls EXCEPT ![r] = @ + 1]
            /\ pc' = [pc EXCEPT ![r] = "awaitGet"]
            /\ UNCHANGED <<caught, response>>

\* Faulty variant: the test of the query result is inverted.
PostGetResolvedInverted(r) ==
    /\ pc[r] = "awaitGet"
    /\ UNCHANGED <<store, store0, request, subscriberData, docRef, getCalls>>
    /\ IF Query(store, subscriberData[r].email) = <<>>
       THEN /\ existingSubscriber' = [existingSubscriber EXCEPT ![r] = "empty"]
            /\ Return(r, NoError, DuplicateResponse)
            /\ UNCHANGED addCalls
       ELSE /\ existingSubscriber' = [existingSubscriber EXCEPT ![r] = "nonempty"]
            /\ addCalls' = [addCalls EXCEPT ![r] = @ + 1]
            /\ pc' = [pc EXCEPT ![r] = "awaitAdd"]
            /\ UNCHANGED <<caught, response>>

\* Faulty variant: an empty result is confirmed by a second query before
\* the insert is issued.
PostGetResolvedRecheck(r) ==
    /\ pc[r] = "awaitGet"
    /\ UNCHANGED <<store, store0, request, subscriberData, docRef>>
    /\ IF Query(store, subscriberData[r].email) # <<>>
       THEN /\ existingSubscriber' = [existingSubscriber EXCEPT ![r] = "nonempty"]
            /\ Return(r, NoError, DuplicateResponse)
            /\ UNCHANGED <<addCalls, getCalls>>
       ELSE IF getCalls[r] < 2
       THEN /\ getCalls' = [getCalls EXCEPT ![r] = @ + 1]
            /\ UNCHANGED <<existingSubscriber, addCalls, pc, caught, response>>
       ELSE /\ existingSubscriber' = [existingSubscriber EXCEPT ![r] = "empty"]
            /\ addCalls' = [addCalls EXCEPT ![r] = @ + 1]
            /\ pc' = [pc EXCEPT ![r] = "awaitAdd"]
            /\ UNCHANGED <<caught, response, getCalls>>

\* The duplicate-check query resolves with the collection as it is now; the
\* handler answers 409 on a match and issues the insert otherwise.
PostGetResolved(r) ==
    /\ pc[r] = "awaitGet"
    /\ UNCHANGED <<store, store0, request, subscriberData, docRef, getCalls>>
    /\ IF Query(store, subscriberData[r].email) # <<>>
       THEN /\ existingSubscriber' = [existingSubscriber EXCEPT ![r] = "nonempty"]
            /\ Return(r, NoError, DuplicateResponse)
            /\ UNCHANGED addCalls
       ELSE /\ existingSubscriber' = [existingSubscriber EXCEPT ![r] = "empty"]
            /\ addCalls' = [addCalls EXCEPT ![r] = @ + 1]
            /\ pc' = [pc EXCEPT ![r] = "awaitAdd"]
            /\ UNCHANGED <<caught, response>>

\* Faulty variant: the error of a rejected query is swallowed and the
\* handler goes on to the insert.
PostGetRejectedProceeds(r, text) ==
    /\ pc[r] = "awaitGet"
    /\ addCalls' = [addCalls EXCEPT ![r] = @ + 1]
    /\ pc' = [pc EXCEPT ![r] = "awaitAdd"]
    /\ UNCHANGED <<store, store0, request, subscriberData, existingSubscriber,
                   docRef, getCalls, caught, response>>

\* Faulty variant: a rejected query is retried once before the error is thrown.
PostGetRejectedRetry(r, text) ==
    /\ pc[r] = "awaitGet"
    /\ UNCHANGED <<store, store0, request, subscriberData, existingSubscriber,
                   docRef, addCalls>>
    /\ IF getCalls[r] < 2
       THEN /\ getCalls' = [getCalls EXCEPT ![r] = @ + 1]
            /\ UNCHANGED <<pc, caught, response>>
       ELSE /\ Throw(r, [name |-> "Error", message |-> text, issues |-> <<>>])
            /\ UNCHANGED getCalls

\* The duplicate-check query rejects.
PostGetRejected(r, text) ==
    /\ pc[r] = "awaitGet"
    /\ Throw(r, [name |-> "Error", message |-> text, issues |-> <<>>])
    /\ UNCHANGED <<store, store0, request, subscriberData, existingSubscriber,
                   docRef, getCalls, addCalls>>

\* Faulty variant: the insert is conditional on the email still being absent.
PostAddConditional(r) ==
    /\ pc[r] = "awaitAdd"
    /\ UNCHANGED <<store0, request, subscriberData, existingSubscriber, getCalls, addCalls>>
    /\ IF Query(store, subscriberData[r].email) # <<>>
       THEN /\ Return(r, NoError, DuplicateResponse)
            /\ UNCHANGED <<store, docRef>>
       ELSE /\ store' = Append(store, subscriberData[r])
            /\ docRef' = [docRef EXCEPT ![r] = Len(store) + 1]
            /\ Return(r, NoError, CreatedResponse(subscriberData[r]))

\* Faulty variant: the insert is sent twice.
PostAddTwice(r) ==
    /\ pc[r] = "awaitAdd"
    /\ store' = Append(Append(store, subscriberData[r]), subscriberData[r])
    /\ docRef' = [docRef EXCEPT ![r] = Len(store) + 1]
    /\ Return(r, NoError, CreatedResponse(subscriberData[r]))
    /\ UNCHANGED <<store0, request, subscriberData, existingSubscriber, getCalls, addCalls>>

\* Faulty variant: the insert writes to a fixed document, replacing the
\* collection's first document when there is one.
PostAddOverwrite(r) ==
    /\ pc[r] = "awaitAdd"
    /\ store' = IF store = <<>> THEN <<subscriberData[r]>>
                ELSE [store EXCEPT ![1] = subscriberData[r]]
    /\ docRef' = [docRef EXCEPT ![r] = 1]
    /\ Return(r, NoError, CreatedResponse(subscriberData[r]))
    /\ UNCHANGED <<store0, request, subscriberData, existingSubscriber, getCalls, addCalls>>

\* The insert resolves: the document is in the collection; the handler
\* answers 201.
PostAddResolved(r) ==
    /\ pc[r] = "awaitAdd"
    /\ store' = Append(store, subscriberData[r])
    /\ docRef' = [docRef EXCEPT ![r] = Len(store) + 1]
    /\ Return(r, NoError, CreatedResponse(subscriberData[r]))
    /\ UNCHANGED <<store0, request, subscriberData, existingSubscriber, getCalls, addCalls>>

\* Faulty variant: the rejected insert had been applied by the store, and
\* the handler leaves it there.
PostAddRejectedApplied(r, text) ==
    /\ pc[r] = "awaitAdd"
    /\ store' = Append(store, subscriberData[r])
    /\ Throw(r, [name |-> "Error", message |-> text, issues |-> <<>>])
    /\ UNCHANGED <<store0, request, subscriberData, existingSubscriber,
                   docRef, getCalls, addCalls>>

\* The insert rejects.
PostAddRejected(r, text) ==
    /\ pc[r] = "awaitAdd"
    /\ Throw(r, [name |-> "Error", message |-> text, issues |-> <<>>])
    /\ UNCHANGED <<store, store0, request, subscriberData, existingSubscriber,
                   docRef, getCalls, addCalls>>

\* GET: answers 405 whatever the request.
Get(r, q) ==
    /\ Arrives(r)
    /\ request' = [request EXCEPT ![r] = q]
    /\ Return(r, NoError, MethodNotAllowed)
    /\ UNCHANGED <<store, store0, subscriberData, existingSubscriber, docRef,
                   getCalls, addCalls>>

\* The store-side steps of the invocations in flight.
StoreStep ==
    \E r \in Reqs :
        \/ PostGetResolved(r)
        \/ \E t \in ReadErrTexts : PostGetRejected(r, t)
        \/ PostAddResolved(r)
        \/ \E t \in WriteErrTexts : PostAddRejected(r, t)

\* Requests are served concurrently: the host runtime starts a handler for
\* each request as it arrives.
Next ==
    \/ UNCHANGED formVars /\ \E r \in Reqs : \E q \in PostRequests : PostBegin(r, q)
    \/ UNCHANGED formVars /\ \E r \in Reqs : \E q \in GetRequests : Get(r, q)
    \/ UNCHANGED formVars /\ StoreStep

Spec == Init /\ [][Next]_vars

\* The same, with the POST handler of the variant that logs its steps.
LoggedNext ==
    \/ UNCHANGED formVars /\ \E r \in Reqs : \E q \in PostRequests : PostBeginLogged(r, q)
    \/ UNCHANGED formVars /\ \E r \in Reqs : \E q \in GetRequests : Get(r, q)
    \/ UNCHANGED formVars /\ StoreStep

LoggedSpec == Init /\ [][LoggedNext]_vars

\* Requests served one at a time: a request arrives only when no other
\* invocation is in flight.
NoneInFlight == \A r \in Reqs : pc[r] \in {"idle", "done"}

SeqNext ==
    \/ UNCHANGED formVars /\ NoneInFlight
          /\ \E r \in Reqs : \E q \in PostRequests : PostBegin(r, q)
    \/ UNCHANGED formVars /\ NoneInFlight
          /\ \E r \in Reqs : \E q \in GetRequests : Get(r, q)
    \/ UNCHANGED formVars /\ StoreStep

SeqSpec == Init /\ [][SeqNext]_vars


(***************************************************************************)
(* The signup form.  One mounted instance of EmailSignupForm: the user     *)
(* changes the field and submits through the controls the component        *)
(* renders; the fetch it issues settles later with what the network gives  *)
(* back.                                                                   *)
(***************************************************************************)
\* Calls of fetch() a behaviour of the form goes through.
MaxFetchCalls == 2

\* What the user types into the field.
FormInputs == {EmptyEmail, NoAtEmail, ShortTldEmail, LowerEmail, UpperEmail, OtherEmail}

\* formSchema: the message of the email check, "" when the value passes.
FieldError(v) == IF IsEmail(v) THEN "" ELSE "Please enter a valid email address"

\* Faulty variant: the form is rendered whatever the status is.
FormAlwaysRendered == TRUE

\* The success view replaces the form when submitStatus.type is "success".
FormRendered == submitStatus.type # "success"

\* Faulty variant: the input is also disabled while an error is shown.
InputDisabledAfterError == isSubmitting \/ submitStatus.type = "error"

\* disabled={isSubmitting} on the input.
InputDisabled == isSubmitting

\* Faulty variant: the button carries no disabled attribute.
ButtonNeverDisabled == FALSE

\* disabled={isSubmitting} on the submit button.
ButtonDisabled == isSubmitting

\* What response.json() yields, as far as the form reads it: result.message.
Json(hasMessage, msg) == [hasMessage |-> hasMessage, message |-> msg]
NoJson == Json(FALSE, "")

\* How a fetch settles: it rejects, or resolves with a response whose body
\* parses as JSON or does not.
NoOutcome == [kind |-> "none", status |-> 0, parses |-> FALSE, result |-> NoJson]
Rejected == [kind |-> "rejected", status |-> 0, parses |-> FALSE, result |-> NoJson]
Resolved(status, parses, result) ==
    [kind |-> "response", status |-> status, parses |-> parses, result |-> result]

\* A response of the subscribe endpoint, as the browser receives it.
FromEndpoint(resp) == Resolved(resp.status, TRUE, Json(TRUE, resp.body.message))

\* Response.ok: the status is in the range 200-299.
Ok(o) == o.status >= 200 /\ o.status <= 299

\* The ways the fetch of a submitted email can settle: the endpoint's
\* answers to it, a rejection, and answers that do not come from the
\* handler (another message, no message, a body that is not JSON).
FetchOutcomes(e) ==
    { FromEndpoint(CreatedResponse(Record(ToLowerCase(e), "landing-page", "active",
                                          "unknown", "unknown"))),
      FromEndpoint(DuplicateResponse),
      FromEndpoint(CatchResponse([name |-> "Error", message |-> "Connection failed",
                                  issues |-> <<>>])),
      Rejected,
      Resolved(500, TRUE, Json(TRUE, "Internal server error")),
      Resolved(500, TRUE, NoJson),
      Resolved(500, TRUE, Json(TRUE, "")),
      Resolved(409, FALSE, NoJson),
      Resolved(502, FALSE, NoJson),
      Resolved(200, FALSE, NoJson) }

Event(kind, v, o) == [kind |-> kind, value |-> v, outcome |-> o]

\* The user edits the field.  After a submit has been handled the form
\* library validates the field again on every change.
Change(v) ==
    /\ FormRendered /\ ~InputDisabled
    /\ v # emailField
    /\ emailField' = v
    /\ errors' = IF isSubmitted THEN FieldError(v) ELSE errors
    /\ lastEvent' = Event("change", v, NoOutcome)
    /\ UNCHANGED <<isSubmitted, isSubmitting, submitStatus, pending, fetchCalls>>

\* Faulty variant: the form is used without the resolver, so onSubmit runs
\* for every value.
SubmitUnvalidated ==
    /\ FormRendered
    /\ ~ButtonDisabled \/ ~InputDisabled
    /\ fetchCalls < MaxFetchCalls
    /\ lastEvent' = Event("submit", emailField, NoOutcome)
    /\ isSubmitted' = TRUE
    /\ errors' = ""
    /\ isSubmitting' = TRUE
    /\ submitStatus' = [type |-> "null", message |-> ""]
    /\ pending' = Append(pending, ObjectBody(JString(emailField), Source("landing-page")))
    /\ fetchCalls' = fetchCalls + 1
    /\ UNCHANGED emailField

\* Faulty variant: onSubmit does not set the submitting flag.
SubmitWithoutFlag ==
    /\ FormRendered
    /\ ~ButtonDisabled \/ ~InputDisabled
    /\ IsEmail(emailField) => fetchCalls < MaxFetchCalls
    /\ lastEvent' = Event("submit", emailField, NoOutcome)
    /\ isSubmitted' = TRUE
    /\ errors' = FieldError(emailField)
    /\ UNCHANGED <<emailField, isSubmitting>>
    /\ IF IsEmail(emailField)
       THEN /\ submitStatus' = [type |-> "null", message |-> ""]
            /\ pending' = Append(pending, ObjectBody(JString(emailField),
                                                     Source("landing-page")))
            /\ fetchCalls' = fetchCalls + 1
       ELSE UNCHANGED <<submitStatus, pending, fetchCalls>>

\* Faulty variant: onSubmit does not clear the status of the submission before.
SubmitKeepsStatus ==
    /\ FormRendered
    /\ ~ButtonDisabled \/ ~InputDisabled
    /\ IsEmail(emailField) => fetchCalls < MaxFetchCalls
    /\ lastEvent' = Event("submit", emailField, NoOutcome)
    /\ isSubmitted' = TRUE
    /\ errors' = FieldError(emailField)
    /\ UNCHANGED <<emailField, submitStatus>>
    /\ IF IsEmail(emailField)
       THEN /\ isSubmitting' = TRUE
            /\ pending' = Append(pending, ObjectBody(JString(emailField),
                                                     Source("landing-page")))
            /\ fetchCalls' = fetchCalls + 1
       ELSE UNCHANGED <<isSubmitting, pending, fetchCalls>>

\* The user submits the form, by the button or by Enter in the input:
\* handleSubmit validates the field and, when it passes, runs onSubmit up
\* to the call of fetch.
Submit ==
    /\ FormRendered
    /\ ~ButtonDisabled \/ ~InputDisabled
    /\ IsEmail(emailField) => fetchCalls < MaxFetchCalls
    /\ lastEvent' = Event("submit", emailField, NoOutcome)
    /\ isSubmitted' = TRUE
    /\ errors' = FieldError(emailField)
    /\ UNCHANGED emailField
    /\ IF IsEmail(emailField)
       THEN /\ isSubmitting' = TRUE
            /\ submitStatus' = [type |-> "null", message |-> ""]
            /\ pending' = Append(pending, ObjectBody(JString(emailField),
                                                     Source("landing-page")))
            /\ fetchCalls' = fetchCalls + 1
       ELSE UNCHANGED <<isSubmitting, submitStatus, pending, fetchCalls>>

Without(seq, i) == SubSeq(seq, 1, i - 1) \o SubSeq(seq, i + 1, Len(seq))

\* Faulty variant: the success branch does not call reset().
SettleWithoutReset(i, o) ==
    /\ i \in DOMAIN pending
    /\ pending' = Without(pending, i)
    /\ lastEvent' = Event("settle", pending[i].email.s, o)
    /\ isSubmitting' = FALSE
    /\ fetchCalls' = fetchCalls
    /\ UNCHANGED <<emailField, errors, isSubmitted>>
    /\ submitStatus' =
          IF o.kind = "rejected" \/ ~o.parses
          THEN [type |-> "error",
                message |-> "Network error. Please check your connection and try again."]
          ELSE IF Ok(o)
          THEN [type |-> "success",
                message |-> "Thank you for subscribing! Check your email for confirmation."]
          ELSE [type |-> "error", message |-> "This email is already subscribed."]

\* Faulty variant: reset() is called at the end of onSubmit, on every path.
SettleResetAlways(i, o) ==
    /\ i \in DOMAIN pending
    /\ pending' = Without(pending, i)
    /\ lastEvent' = Event("settle", pending[i].email.s, o)
    /\ isSubmitting' = FALSE
    /\ fetchCalls' = fetchCalls
    /\ emailField' = <<>>
    /\ errors' = ""
    /\ isSubmitted' = FALSE
    /\ submitStatus' =
          IF o.kind = "rejected" \/ ~o.parses
          THEN [type |-> "error",
                message |-> "Network error. Please check your connection and try again."]
          ELSE IF Ok(o)
          THEN [type |-> "success",
                message |-> "Thank you for subscribing! Check your email for confirmation."]
          ELSE IF o.status = 409
          THEN [type |-> "error", message |-> "This email is already subscribed."]
          ELSE [type |-> "error",
                message |-> IF o.result.hasMessage /\ o.result.message # ""
                            THEN o.result.message
                            ELSE "Something went wrong. Please try again."]

\* Faulty variant: setIsSubmitting(false) stands at the end of the try block
\* instead of in finally, so the catch path does not reach it.
SettleWithoutFinally(i, o) ==
    /\ i \in DOMAIN pending
    /\ pending' = Without(pending, i)
    /\ lastEvent' = Event("settle", pending[i].email.s, o)
    /\ fetchCalls' = fetchCalls
    /\ isSubmitting' = (o.kind = "rejected" \/ ~o.parses)
    /\ IF o.kind # "rejected" /\ o.parses /\ Ok(o)
       THEN emailField' = <<>> /\ errors' = "" /\ isSubmitted' = FALSE
       ELSE UNCHANGED <<emailField, errors, isSubmitted>>
    /\ submitStatus' =
          IF o.kind = "rejected" \/ ~o.parses
          THEN [type |-> "error",
                message |-> "Network error. Please check your connection and try again."]
          ELSE IF Ok(o)
          THEN [type |-> "success",
                message |-> "Thank you for subscribing! Check your email for confirmation."]
          ELSE IF o.status = 409
          THEN [type |-> "error", message |-> "This email is already subscribed."]
          ELSE [type |-> "error",
                message |-> IF o.result.hasMessage /\ o.result.message # ""
                            THEN o.result.message
                            ELSE "Something went wrong. Please try again."]

\* Faulty variant: the branch on status 409 comes after the branch that
\* shows the server's message, so it is taken only without a message.
SettleServerMessageFirst(i, o) ==
    /\ i \in DOMAIN pending
    /\ pending' = Without(pending, i)
    /\ lastEvent' = Event("settle", pending[i].email.s, o)
    /\ fetchCalls' = fetchCalls
    /\ isSubmitting' = FALSE
    /\ IF o.kind # "rejected" /\ o.parses /\ Ok(o)
       THEN emailField' = <<>> /\ errors' = "" /\ isSubmitted' = FALSE
       ELSE UNCHANGED <<emailField, errors, isSubmitted>>
    /\ submitStatus' =
          IF o.kind = "rejected" \/ ~o.parses
          THEN [type |-> "error",
                message |-> "Network error. Please check your connection and try again."]
          ELSE IF Ok(o)
          THEN [type |-> "success",
                message |-> "Thank you for subscribing! Check your email for confirmation."]
          ELSE IF o.result.hasMessage /\ o.result.message # ""
          THEN [type |-> "error", message |-> o.result.message]
          ELSE IF o.status = 409
          THEN [type |-> "error", message |-> "This email is already subscribed."]
          ELSE [type |-> "error", message |-> "Something went wrong. Please try again."]

\* A fetch settles and onSubmit runs to its end: response.json(), the
\* branch on response.ok and response.status, the catch block, finally.
Settle(i, o) ==
    /\ i \in DOMAIN pending
    /\ pending' = Without(pending, i)
    /\ lastEvent' = Event("settle", pending[i].email.s, o)
    /\ isSubmitting' = FALSE
    /\ fetchCalls' = fetchCalls
    /\ IF o.kind = "rejected" \/ ~o.parses
       THEN /\ submitStatus' =
                 [type |-> "error",
                  message |-> "Network error. Please check your connection and try again."]
            /\ UNCHANGED <<emailField, errors, isSubmitted>>
       ELSE IF Ok(o)
       THEN /\ submitStatus' =
                 [type |-> "success",
                  message |-> "Thank you for subscribing! Check your email for confirmation."]
            /\ emailField' = <<>>
            /\ errors' = ""
            /\ isSubmitted' = FALSE
       ELSE IF o.status = 409
       THEN /\ submitStatus' =
                 [type |-> "error", message |-> "This email is already subscribed."]
            /\ UNCHANGED <<emailField, errors, isSubmitted>>
       ELSE /\ submitStatus' =
                 [type |-> "error",
                  message |-> IF o.result.hasMessage /\ o.result.message # ""
                              THEN o.result.message
                              ELSE "Something went wrong. Please try again."]
            /\ UNCHANGED <<emailField, errors, isSubmitted>>

FormNext ==
    \/ UNCHANGED endpointVars /\ \E v \in FormInputs : Change(v)
    \/ UNCHANGED endpointVars /\ Submit
    \/ UNCHANGED endpointVars
          /\ \E i \in DOMAIN pending : \E o \in FetchOutcomes(pending[i].email.s) : Settle(i, o)

\* The form in a browser, the collection of the endpoint left aside.
FormInit == Init /\ store = <<>>

FormSpec == FormInit /\ [][FormNext]_vars


(***************************************************************************)
(* Vocabulary of the properties.                                           *)
(***************************************************************************)
IsPost(r) == pc[r] # "idle" /\ request[r].method = "POST"
IsGet(r) == pc[r] # "idle" /\ request[r].method = "GET"
Answered(r, status) == pc[r] = "done" /\ response[r].status = status

\* The email string a POST submitted, when its body carries one.
HasEmailString(r) ==
    IsPost(r) /\ request[r].body.kind = "object" /\ request[r].body.email.t = "string"
Submitted(r) == request[r].body.email.s

\* out is the lower-cased form of in, stated character by character.
IsLowerOf(out, in) ==
    /\ Len(out) = Len(in)
    /\ \A i \in DOMAIN in :
          IF in[i] \in Range(UpperChars)
          THEN <<in[i], out[i]>> \in CasePairs
          ELSE out[i] = in[i]

\* Two email strings have the same normalised form.
SameNormalized(a, b) == ToLowerCase(a) = ToLowerCase(b)

\* The positions of the documents of docs whose email normalises like e.
DocsFor(docs, e) == {i \in DOMAIN docs : SameNormalized(docs[i].email, e)}

\* A POST whose email member is absent or one of the invalid strings.
EmailAbsentOrInvalid(r) ==
    /\ IsPost(r)
    /\ request[r].body.kind = "object"
    /\ \/ request[r].body.email.t = "undefined"
       \/ request[r].body.email.t = "string" /\ Submitted(r) \in InvalidEmails

\* The invocation made a store call that failed.
StoreFailed(r) == caught[r].name = "Error"
ReadFailed(r) == StoreFailed(r) /\ existingSubscriber[r] = "unset"
WriteFailed(r) == StoreFailed(r) /\ existingSubscriber[r] = "empty"

GenericFailure == "Failed to subscribe. Please try again."

(***************************************************************************)
(* C1. A POST whose email is absent or syntactically invalid (empty, no    *)
(* "@", no domain, malformed) is answered 400 "Invalid email format", and  *)
(* the invocation writes nothing to the store, whatever the collection     *)
(* holds.                                                                  *)
(***************************************************************************)
C1_InvalidEmailIs400NoWrite ==
    \A r \in Reqs :
        EmailAbsentOrInvalid(r) =>
            /\ Answered(r, 400)
            /\ response[r].body.message = "Invalid email format"
            /\ addCalls[r] = 0
            /\ docRef[r] = 0
            /\ Len(store) = Len(store0) + Cardinality({o \in Reqs : docRef[o] # 0})

C1_Witness ==
    /\ store0 # <<>>
    /\ \E r \in Reqs : EmailAbsentOrInvalid(r) /\ Submitted(r) = NoDomainEmail /\ Answered(r, 400)
    /\ \E r \in Reqs : EmailAbsentOrInvalid(r) /\ request[r].body.email.t = "undefined"
                       /\ Answered(r, 400)

(***************************************************************************)
(* C2. Requests served one at a time: two consecutive POSTs whose emails   *)
(* have the same normalised form, sent when the collection holds no record *)
(* for that email, are answered 201 then 409, and the collection holds     *)
(* exactly one record for that email -- provided no store call of the two  *)
(* requests fails.                                                         *)
(***************************************************************************)
FirstPairFor(a, b) ==
    /\ b = a + 1
    /\ pc[a] = "done" /\ pc[b] = "done"
    /\ HasEmailString(a) /\ HasEmailString(b)
    /\ IsEmail(Submitted(a)) /\ IsEmail(Submitted(b))
    /\ SameNormalized(Submitted(a), Submitted(b))
    /\ DocsFor(store0, Submitted(a)) = {}
    /\ \A o \in Reqs :
          o < a /\ docRef[o] # 0 => ~SameNormalized(subscriberData[o].email, Submitted(a))

Created201Then409(a, b) ==
    /\ response[a].status = 201
    /\ response[b].status = 409
    /\ Cardinality(DocsFor(store, Submitted(a))) = 1

BothSawEmpty(a, b) ==
    /\ a # b
    /\ HasEmailString(a) /\ HasEmailString(b)
    /\ existingSubscriber[a] = "empty" /\ existingSubscriber[b] = "empty"
    /\ pc[a] = "done" /\ pc[b] = "done"
    /\ ~StoreFailed(a) /\ ~StoreFailed(b)
    /\ SameNormalized(Submitted(a), Submitted(b))

C3_RaceInsertsTwice ==
    \A a, b \in Reqs :
        BothSawEmpty(a, b) =>
            /\ response[a].status = 201 /\ response[b].status = 201
            /\ docRef[a] # docRef[b]
            /\ {docRef[a], docRef[b]} \subseteq DocsFor(store, Submitted(a))

C3_Witness ==
    \E a, b \in Reqs :
        /\ BothSawEmpty(a, b)
        /\ DocsFor(store0, Submitted(a)) = {}
        /\ response[a].status = 201 /\ response[b].status = 201
        /\ Cardinality(DocsFor(store, Submitted(a))) = 2

(***************************************************************************)
(* C4. Requests served one at a time, from a collection with at most one   *)
(* active record per normalised email: in every reachable state the        *)
(* collection holds at most one active record per normalised email.        *)
(***************************************************************************)
ActiveDocs(docs) == {i \in DOMAIN docs : docs[i].status = "active"}

AtMostOneActivePerEmail(docs) ==
    \A i, j \in ActiveDocs(docs) :
        SameNormalized(docs[i].email, docs[j].email) => i = j

C4_SequentialUniqueActive ==
    AtMostOneActivePerEmail(store0) => AtMostOneActivePerEmail(store)

\* A duplicate was turned away and another email was added.
C4_Witness ==
    /\ AtMostOneActivePerEmail(store0)
    /\ Cardinality(ActiveDocs(store)) >= 2
    /\ \E r \in Reqs : Answered(r, 409) /\ Submitted(r) = UpperEmail

(***************************************************************************)
(* C5. For every valid email accepted by POST, the duplicate-check key and *)
(* the candidate's email are the lower-cased form of the submitted email,  *)
(* and so are the email of the record inserted and the email in the 201    *)
(* body.                                                                   *)
(***************************************************************************)
C5_EmailLowerCased ==
    \A r \in Reqs :
        IsPost(r) /\ getCalls[r] > 0 =>
            /\ HasEmailString(r)
            /\ IsLowerOf(subscriberData[r].email, Submitted(r))
            /\ Answered(r, 201) =>
                  /\ IsLowerOf(response[r].body.email, Submitted(r))
                  /\ docRef[r] \in DOMAIN store
                  /\ IsLowerOf(store[docRef[r]].email, Submitted(r))

C5_Witness ==
    \E r \in Reqs :
        /\ Answered(r, 201)
        /\ Submitted(r) = UpperEmail
        /\ response[r].body.email = LowerEmail
        /\ store[docRef[r]].email = LowerEmail


(***************************************************************************)
(* C6. A POST answered 201 has added exactly one new record, and a POST    *)
(* answered 409 has written nothing: the collection is the initial one     *)
(* followed by one record per 201 answer, each the candidate of its        *)
(* request, and nothing else.                                              *)
(***************************************************************************)
Created == {r \in Reqs : Answered(r, 201)}

C6_OneRecordPer201NoneFor409 ==
    /\ Len(store) = Len(store0) + Cardinality(Created)
    /\ SubSeq(store, 1, Len(store0)) = store0
    /\ \A r \in Created :
          /\ addCalls[r] = 1
          /\ docRef[r] \in (Len(store0) + 1)..Len(store)
          /\ store[docRef[r]] = subscriberData[r]
          /\ \A o \in Created : docRef[o] = docRef[r] => o = r
    /\ \A r \in Reqs : Answered(r, 409) => addCalls[r] = 0 /\ docRef[r] = 0

C6_Witness ==
    /\ \E r \in Reqs : Answered(r, 201)
    /\ \E r \in Reqs : Answered(r, 409)
    /\ Len(store) = Len(store0) + 1

(***************************************************************************)
(* C7. When the duplicate-check read of a POST with a valid email fails,   *)
(* the answer is 500 with exactly the generic message, nothing is written, *)
(* and the read is not retried.                                            *)
(***************************************************************************)
C7_ReadFailureIs500 ==
    \A r \in Reqs :
        /\ getCalls[r] <= 1
        /\ IsPost(r) /\ ReadFailed(r) =>
              /\ HasEmailString(r) /\ IsEmail(Submitted(r))
              /\ pc[r] = "done"
              /\ response[r] = [status |-> 500, body |-> [message |-> GenericFailure]]
              /\ getCalls[r] = 1
              /\ addCalls[r] = 0
              /\ docRef[r] = 0

C7_Witness ==
    \E r \in Reqs :
        /\ IsPost(r) /\ ReadFailed(r)
        /\ caught[r].message = "Database connection failed"
        /\ Answered(r, 500)
        /\ store = store0

(***************************************************************************)
(* C8. The answer to an unexpected failure does not depend on the failure: *)
(* any two POSTs that failed unexpectedly (body not JSON, read failure,    *)
(* write failure) have the same status 500 and the same body, and no       *)
(* member of the body is the text of the error caught.                     *)
(***************************************************************************)
FailedUnexpectedly(r) ==
    IsPost(r) /\ pc[r] = "done" /\ caught[r] # NoError /\ caught[r].name # "ZodError"

ErrTexts == JsonErrTexts \cup ReadErrTexts \cup WriteErrTexts

C8_FailureAnswerIndependentOfError ==
    \A a, b \in Reqs :
        FailedUnexpectedly(a) /\ FailedUnexpectedly(b) =>
            /\ response[a].status = 500
            /\ response[a] = response[b]
            /\ \A f \in DOMAIN response[a].body : response[a].body[f] \notin ErrTexts

C8_Witness ==
    \E a, b \in Reqs :
        /\ FailedUnexpectedly(a) /\ FailedUnexpectedly(b)
        /\ caught[a].name = "SyntaxError"
        /\ WriteFailed(b)
        /\ caught[a].message # caught[b].message
        /\ response[a] = response[b]

(***************************************************************************)
(* C9. Every POST that has left the handler did so with a response whose   *)
(* status is 201, 400, 409 or 500, whatever the body and whatever the      *)
(* store did; a caught error always yields 400 or 500.                     *)
(***************************************************************************)
C9_PostAlwaysAnswers ==
    \A r \in Reqs :
        IsPost(r) =>
            /\ pc[r] \in {"awaitGet", "awaitAdd", "done"}
            /\ pc[r] = "done" => response[r].status \in {201, 400, 409, 500}
            /\ caught[r] # NoError => pc[r] = "done" /\ response[r].status \in {400, 500}

C9_Witness ==
    /\ \E r \in Reqs : IsPost(r) /\ Answered(r, 500) /\ caught[r].name = "SyntaxError"
    /\ \E r \in Reqs : IsPost(r) /\ Answered(r, 500) /\ ReadFailed(r)

(***************************************************************************)
(* C10. GET is answered 405 "Method not allowed" whatever its query,       *)
(* headers or the collection, and reads and writes nothing.                *)
(***************************************************************************)
C10_GetIs405 ==
    \A r \in Reqs :
        IsGet(r) =>
            /\ pc[r] = "done"
            /\ response[r] = [status |-> 405, body |-> [message |-> "Method not allowed"]]
            /\ getCalls[r] = 0 /\ addCalls[r] = 0 /\ docRef[r] = 0
            /\ Len(store) = Len(store0) + Cardinality({o \in Reqs : docRef[o] # 0})

C10_Witness ==
    \E r \in Reqs :
        /\ IsGet(r) /\ Answered(r, 405)
        /\ request[r].query # ""
        /\ HasHeader(request[r].headers, "x-forwarded-for")
        /\ store # <<>>


(***************************************************************************)
(* C11. A POST whose body passes validation performs exactly one read, and *)
(* every POST performs at most one read and at most one write; a write is  *)
(* only made after the read came back empty.                               *)
(***************************************************************************)
PassesValidation(r) == HasEmailString(r) /\ Submitted(r) \in ValidEmails

C11_OneReadAtMostOneWrite ==
    \A r \in Reqs :
        IsPost(r) =>
            /\ getCalls[r] = (IF PassesValidation(r) THEN 1 ELSE 0)
            /\ addCalls[r] <= 1
            /\ addCalls[r] = 1 => getCalls[r] = 1 /\ existingSubscriber[r] = "empty"

\* The claim as written: every POST performs one read.
C11_AsWritten ==
    \A r \in Reqs : IsPost(r) /\ pc[r] = "done" => getCalls[r] = 1 /\ addCalls[r] <= 1

C11_Witness ==
    /\ \E r \in Reqs : IsPost(r) /\ Answered(r, 201) /\ getCalls[r] = 1 /\ addCalls[r] = 1
    /\ \E r \in Reqs : IsPost(r) /\ Answered(r, 409) /\ getCalls[r] = 1 /\ addCalls[r] = 0

(***************************************************************************)
(* C12. Only active records count for the duplicate check: a POST is       *)
(* answered 409 only when the collection holds an active record with its   *)
(* normalised email.                                                       *)
(***************************************************************************)
C12_DuplicateOnlyForActive ==
    \A r \in Reqs :
        IsPost(r) /\ Answered(r, 409) =>
            \E i \in ActiveDocs(store) : SameNormalized(store[i].email, Submitted(r))

(***************************************************************************)
(* C13. No step mutates or deletes a record: every document stays at its   *)
(* place with all its fields, and the collection changes only by gaining,  *)
(* at its end, the candidate of a POST that is answered 201 in that step.  *)
(***************************************************************************)
C13_RecordsOnlyAdded ==
    [][/\ \A i \in DOMAIN store : i \in DOMAIN store' /\ store'[i] = store[i]
       /\ store' # store =>
            \E r \in Reqs :
                /\ IsPost(r) /\ pc[r] # "done"
                /\ pc'[r] = "done" /\ response'[r].status = 201
                /\ store' = Append(store, subscriberData[r])]_vars

C13_Witness ==
    /\ store0 # <<>>
    /\ Len(store) = Len(store0) + 2
    /\ SubSeq(store, 1, Len(store0)) = store0

(***************************************************************************)
(* C14. The candidate record of a POST, and the record it inserts, has     *)
(* status 'active'; source is the request's source when that is a          *)
(* non-empty string and 'website' otherwise; ipAddress is X-Forwarded-For  *)
(* when that header has a non-empty value, otherwise X-Real-IP when that   *)
(* has a non-empty value, otherwise 'unknown'; userAgent is User-Agent     *)
(* verbatim when non-empty and 'unknown' otherwise.                        *)
(***************************************************************************)
Supplied(r) == request[r].body.source.t = "string"
Present(r, n) == HasHeader(request[r].headers, n)
NonEmpty(r, n) == Present(r, n) /\ request[r].headers[n] # ""

Built(r) == IsPost(r) /\ subscriberData[r] # NoData

Inserted(r, rec) == docRef[r] # 0 => store[docRef[r]] = rec

C14_InsertedRecordFields ==
    \A r \in Reqs :
        Built(r) =>
            LET d == subscriberData[r] IN
            /\ Inserted(r, d)
            /\ d.status = "active"
            /\ d.source = (IF Supplied(r) /\ request[r].body.source.v # ""
                           THEN request[r].body.source.v ELSE "website")
            /\ d.ipAddress = (IF NonEmpty(r, "x-forwarded-for")
                              THEN request[r].headers["x-forwarded-for"]
                              ELSE IF NonEmpty(r, "x-real-ip")
                              THEN request[r].headers["x-real-ip"]
                              ELSE "unknown")
            /\ d.userAgent = (IF NonEmpty(r, "user-agent")
                              THEN request[r].headers["user-agent"]
                              ELSE "unknown")

\* The claim as written: a supplied source and a present header are used
\* whatever their value.
C14_AsWritten ==
    \A r \in Reqs :
        Built(r) =>
            LET d == subscriberData[r] IN
            /\ Inserted(r, d)
            /\ d.status = "active"
            /\ d.source = (IF Supplied(r) THEN request[r].body.source.v ELSE "website")
            /\ d.ipAddress = (IF Present(r, "x-forwarded-for")
                              THEN request[r].headers["x-forwarded-for"]
                              ELSE IF Present(r, "x-real-ip")
                              THEN request[r].headers["x-real-ip"]
                              ELSE "unknown")
            /\ d.userAgent = (IF Present(r, "user-agent")
                              THEN request[r].headers["user-agent"]
                              ELSE "unknown")

C14_Witness ==
    /\ \E r \in Reqs :
        /\ Answered(r, 201) /\ docRef[r] # 0
        /\ NonEmpty(r, "x-forwarded-for") /\ NonEmpty(r, "x-real-ip")
        /\ store[docRef[r]].ipAddress = "192.168.1.1"
        /\ store[docRef[r]].userAgent = "Mozilla/5.0 Test Browser"
    /\ \E r \in Reqs :
        /\ Answered(r, 201) /\ docRef[r] # 0
        /\ Supplied(r) /\ request[r].body.source.v = "test"
        /\ store[docRef[r]].source = "test"
        /\ store[docRef[r]].ipAddress = "unknown"

(***************************************************************************)
(* C15. When the insert of a POST fails after its duplicate check came     *)
(* back empty, the POST is answered 500 with the generic message and the   *)
(* collection holds no record inserted by that request: it holds the       *)
(* initial records and one record per request whose insert resolved.       *)
(***************************************************************************)
InsertedBy == {o \in Reqs : docRef[o] # 0}

C15_WriteFailureIs500NoRecord ==
    \A r \in Reqs :
        IsPost(r) /\ pc[r] = "done" /\ WriteFailed(r) =>
            /\ response[r] = [status |-> 500, body |-> [message |-> GenericFailure]]
            /\ addCalls[r] = 1
            /\ docRef[r] = 0
            /\ Len(store) = Len(store0) + Cardinality(InsertedBy)
            /\ \A i \in DOMAIN store :
                  i > Len(store0) => \E o \in InsertedBy \ {r} : docRef[o] = i

C15_Witness ==
    \E r \in Reqs :
        /\ IsPost(r) /\ pc[r] = "done" /\ WriteFailed(r)
        /\ Answered(r, 500)
        /\ DocsFor(store, Submitted(r)) = {}

(***************************************************************************)
(* C16. Concurrent POSTs with pairwise distinct normalised emails, none of *)
(* which the collection holds, all answer 201 when no store call fails,    *)
(* under every interleaving, and each inserts exactly one record.          *)
(***************************************************************************)
DistinctFromOthers(r) ==
    \A o \in Reqs \ {r} :
        IsPost(o) /\ HasEmailString(o) => ~SameNormalized(Submitted(o), Submitted(r))

C16_DistinctEmailsAllCreated ==
    \A r \in Reqs :
        /\ IsPost(r) /\ pc[r] = "done"
        /\ PassesValidation(r)
        /\ ~StoreFailed(r)
        /\ DocsFor(store0, Submitted(r)) = {}
        /\ DistinctFromOthers(r)
        => /\ Answered(r, 201)
           /\ docRef[r] # 0
           /\ Cardinality(DocsFor(store, Submitted(r))) = 1

\* Two requests in flight together, the one that arrived later inserting first.
C16_Witness ==
    /\ \A r \in Reqs : Answered(r, 201) /\ DistinctFromOthers(r)
    /\ \E a, b \in Reqs : a < b /\ docRef[b] # 0 /\ docRef[b] < docRef[a]

(***************************************************************************)
(* Vocabulary of the form's properties.                                    *)
(***************************************************************************)
\* The state of the form's state machine {idle, submitting, success, error}.
FormState ==
    IF submitStatus.type = "success" THEN "success"
    ELSE IF isSubmitting THEN "submitting"
    ELSE IF submitStatus.type = "error" THEN "error"
    ELSE "idle"

ValidationMessage == "Please enter a valid email address"

(***************************************************************************)
(* C17. The form goes from idle to submitting only by a submit of a value  *)
(* that is a valid email; a submit of an invalid value leaves an idle form *)
(* idle, shows 'Please enter a valid email address' and calls fetch not at *)
(* all.                                                                    *)
(***************************************************************************)
C17_SubmitOnlyWhenValid ==
    [][/\ FormState = "idle" /\ FormState' = "submitting" =>
            /\ lastEvent'.kind = "submit"
            /\ emailField \in ValidEmails
            /\ fetchCalls' = fetchCalls + 1
       /\ lastEvent'.kind = "submit" /\ FormState = "idle" /\ emailField \in InvalidEmails =>
            /\ FormState' = "idle"
            /\ errors' = ValidationMessage
            /\ fetchCalls' = fetchCalls
            /\ pending' = pending
            /\ emailField' = emailField]_vars

C17_Witness ==
    /\ lastEvent.kind = "submit"
    /\ lastEvent.value = NoAtEmail
    /\ FormState = "idle"
    /\ errors = ValidationMessage
    /\ fetchCalls = 0

(***************************************************************************)
(* C18. A form instance never has more than one fetch pending: whatever    *)
(* the user submits, and when, a fetch is started only when no earlier     *)
(* fetch of the form is still pending.                                     *)
(***************************************************************************)
C18_AtMostOneInFlight == Len(pending) <= 1

\* A second request of the same form, started after the first one settled.
C18_Witness ==
    /\ Len(pending) = 1
    /\ fetchCalls = 2
    /\ lastEvent.kind = "submit"

(***************************************************************************)
(* C19. While a request of the form is issued and not settled, the form is *)
(* submitting, and the input and the submit button are both rendered       *)
(* disabled.                                                               *)
(***************************************************************************)
C19_DisabledWhileSubmitting ==
    pending # <<>> \/ FormState = "submitting" =>
        /\ isSubmitting
        /\ FormRendered
        /\ InputDisabled
        /\ ButtonDisabled

C19_Witness ==
    /\ pending # <<>>
    /\ FormState = "submitting"
    /\ InputDisabled /\ ButtonDisabled

(***************************************************************************)
(* C20. When the fetch of a submission resolves with a 2xx response whose  *)
(* body parses as JSON, the form is in success and the field is empty.     *)
(***************************************************************************)
SettledWith2xx ==
    /\ lastEvent.kind = "settle"
    /\ lastEvent.outcome.kind = "response"
    /\ lastEvent.outcome.status \in 200..299

InSuccessFieldCleared ==
    /\ FormState = "success"
    /\ ~isSubmitting
    /\ emailField = <<>>

SettleStep == Len(pending') < Len(pending)

EndsInError(o) ==
    \/ o.kind = "rejected"
    \/ o.kind = "response" /\ o.status \notin 200..299

C21_ErrorKeepsInput ==
    [][SettleStep /\ EndsInError(lastEvent'.outcome) =>
            /\ FormState = "submitting"
            /\ FormState' = "error"
            /\ emailField' = emailField
            /\ emailField' = lastEvent'.value]_vars

C21_Witness ==
    /\ lastEvent.kind = "settle"
    /\ lastEvent.outcome.status = 409
    /\ lastEvent.outcome.parses
    /\ FormState = "error"
    /\ emailField = UpperEmail

(***************************************************************************)
(* C22. Success is terminal: from a state in which the form is in success  *)
(* no step leads to a state in which it is not, and no step calls fetch.   *)
(***************************************************************************)
C22_SuccessIsTerminal ==
    [][FormState = "success" =>
            /\ FormState' = "success"
            /\ fetchCalls' = fetchCalls
            /\ pending' = pending]_vars

\* Success reached with the budget of fetch calls not used up.
C22_Witness ==
    /\ FormState = "success"
    /\ fetchCalls < MaxFetchCalls
    /\ pending = <<>>

(***************************************************************************)
(* C23. In the error state the form and both controls are enabled, and a   *)
(* submit of a valid email there moves the form to submitting and issues   *)
(* one new request carrying that email.                                    *)
(***************************************************************************)
C23_ResubmitFromError ==
    [][/\ FormState = "error" => FormRendered /\ ~InputDisabled /\ ~ButtonDisabled
       /\ FormState = "error" /\ lastEvent'.kind = "submit" /\ emailField \in ValidEmails =>
            /\ FormState' = "submitting"
            /\ fetchCalls' = fetchCalls + 1
            /\ pending' = <<ObjectBody(JString(emailField), Source("landing-page"))>>]_vars

C23_Witness ==
    /\ FormState = "submitting"
    /\ fetchCalls = 2
    /\ lastEvent.kind = "submit"
    /\ pending = <<ObjectBody(JString(OtherEmail), Source("landing-page"))>>

NetworkErrorMessage == "Network error. Please check your connection and try again."
DuplicateMessage == "This email is already subscribed."
FallbackMessage == "Something went wrong. Please try again."

Settled == lastEvent.kind = "settle"
Outcome == lastEvent.outcome
ShowsError(msg) == submitStatus = [type |-> "error", message |-> msg]

C26_ChangeRemovesNetworkError ==
    lastEvent.kind = "change" => ~(FormRendered /\ ShowsError(NetworkErrorMessage))

(***************************************************************************)
(* C30. Whenever the form is submitting, no status of an earlier           *)
(* submission is displayed: the status type is null and its message empty. *)
(***************************************************************************)
C30_SubmittingHasNoStatus ==
    isSubmitting \/ pending # <<>> => submitStatus = [type |-> "null", message |-> ""]

\* Submitting again after a submission that ended in error.
C30_Witness ==
    /\ isSubmitting
    /\ fetchCalls = 2
    /\ submitStatus.type = "null"
    /\ lastEvent.value = LowerEmail

(***************************************************************************)
(* C27. Within one POST the read is issued only after validation passed,   *)
(* the insert only after the request's own read came back empty, and a     *)
(* request whose read found a match, failed or is still outstanding has    *)
(* issued no insert and has no document.                                   *)
(***************************************************************************)
C27_ValidateReadInsertOrder ==
    \A r \in Reqs :
        IsPost(r) =>
            /\ getCalls[r] >= 1 => PassesValidation(r) /\ subscriberData[r] # NoData
            /\ addCalls[r] >= 1 => getCalls[r] >= 1 /\ existingSubscriber[r] = "empty"
            /\ docRef[r] # 0 => addCalls[r] >= 1
            /\ \/ pc[r] = "awaitGet"
               \/ existingSubscriber[r] = "nonempty"
               \/ ReadFailed(r)
               => addCalls[r] = 0 /\ docRef[r] = 0

\* One request failed at its read, another found a match: neither inserted.
C27_Witness ==
    /\ \E r \in Reqs : IsPost(r) /\ ReadFailed(r) /\ addCalls[r] = 0
    /\ \E r \in Reqs : IsPost(r) /\ existingSubscriber[r] = "nonempty" /\ addCalls[r] = 0

(***************************************************************************)
(* C28. A POST whose body is valid JSON without a usable email (an empty   *)
(* object, null, an email that is not a string) is answered 400 'Invalid   *)
(* email format', not 500.                                                 *)
(***************************************************************************)
NoUsableEmail(r) ==
    /\ IsPost(r)
    /\ request[r].body.kind # "malformed"
    /\ request[r].body.kind = "null" \/ request[r].body.email.t # "string"

C28_NoUsableEmailIs400 ==
    \A r \in Reqs :
        NoUsableEmail(r) /\ pc[r] = "done" =>
            /\ response[r].status = 400
            /\ response[r].body.message = "Invalid email format"

(***************************************************************************)
(* C29. Among the POSTs for one normalised email of which the collection   *)
(* held no record, with no store call of theirs failing, the records the   *)
(* collection holds for the email are as many as the requests answered     *)
(* 201, and once all of them are answered at least one is answered 201.    *)
(***************************************************************************)
SameEmailGroup(e) == {r \in Reqs : PassesValidation(r) /\ SameNormalized(Submitted(r), e)}

C29_SameEmailOneCreatedPerRecord ==
    \A e \in {LowerEmail, OtherEmail} :
        LET S == SameEmailGroup(e) IN
        /\ S # {}
        /\ DocsFor(store0, e) = {}
        /\ \A r \in S : ~StoreFailed(r)
        => /\ Cardinality(DocsFor(store, e)) = Cardinality({r \in S : Answered(r, 201)})
           /\ (\A r \in S : pc[r] = "done") => \E r \in S : Answered(r, 201)

\* The request that arrived first is the one answered 409: the other one
\* inserted between its arrival and its read.
C29_Witness ==
    /\ store0 = <<>>
    /\ \E a, b \in Reqs :
        /\ a < b
        /\ PassesValidation(a) /\ PassesValidation(b)
        /\ Submitted(a) = UpperEmail /\ Submitted(b) = LowerEmail
        /\ Answered(a, 409) /\ Answered(b, 201)
        /\ Cardinality(DocsFor(store, LowerEmail)) = 1

====
